---- MODULE Spec2Model ----
(***************************************************************************)
(* Blackjack (thoughtcroft/blackjack, src/blackjack.py): the cards, the    *)
(* shoe, hands, players and the round engine of main(), as a state         *)
(* machine.                                                                *)
(*                                                                         *)
(* Conventions.                                                            *)
(*  - A definition named Class_method models that method of blackjack.py.  *)
(*  - A Python assert is modelled by a predicate named ..._pre; a call     *)
(*    whose precondition is false raises AssertionError and changes        *)
(*    nothing that the lines before the assert did not change.             *)
(*  - Odds are multiples of one half (1, 1.5, 2); an operator that takes   *)
(*    odds takes odds2, twice the odds, so that the arithmetic stays in    *)
(*    the integers.                                                        *)
(*  - random.shuffle is a nondeterministic choice of a permutation.        *)
(***************************************************************************)
EXTENDS Integers, Sequences, FiniteSets, TLC

VARIABLES
    deck,       \* Game.deck.cards: the shoe, a list of cards, dealt from its end
    players,    \* Game.players: the list of Player objects
    dealer,     \* Game.dealer: <<>> for None, <<hand>> once setup() has run
    playing,    \* Game.playing
    pc,         \* the position of main() (or of the harness)
    queue,      \* the players a running for-loop over a list has still to visit
    cur,        \* the indices (player, hand) the player-turn loops have reached
    rounds,     \* how many rounds have been started
    call        \* the last method call of a harness: its arguments and result

vars == <<deck, players, dealer, playing, pc, queue, cur, rounds, call>>

----------------------------------------------------------------------------
(* Bounds of the model.                                                    *)

\* The ranks and suits of the shoe the model deals from: a sub-deck of
\* CARD_RANK x CARD_SUIT, in the order of CARD_RANK and CARD_SUIT. A session
\* deals from a shoe of the suits ShoeSuits, the calls on a Deck alone from a
\* shoe of the suits DeckSuits.
ShoeRanks == <<"A", "K", "5">>
ShoeSuits == <<"H">>
DeckSuits == <<"H", "D">>

\* The suits of the cards a harness builds hands from (all ranks, these suits).
HandSuits == <<"H", "D">>

\* The longest hand the harness of Hand and Player.can_* builds.
MaxHandLen == 3

\* The longest hand the harness of Hand.value builds (cards of one suit).
MaxValueLen == 4

\* The harness of Player: the most chips a player is made with, the largest
\* amount a call passes, the most chips a call may leave the player with and
\* the most a tally may reach.
UnitChips == 3
MaxAmount == 4
MaxUnitChips == 12
MaxTally == 2

\* The longest hand the harness of Game.settle_outcome builds.
MaxSettleLen == 3

\* The session of main(): the number of players, the chips each starts with,
\* the largest bet and the largest insurance bet a player enters, and the
\* number of rounds played.
NumPlayers == 1
StartChips == 20
MaxBet == 12
MaxInsurance == 2
MaxRounds == 2

----------------------------------------------------------------------------
(* Cards.                                                                  *)

CARD_RANK == <<"A", "K", "Q", "J", "10", "9", "8", "7", "6", "5", "4", "3", "2">>

\* The four suits (hearts, diamonds, clubs, spades).
CARD_SUIT == <<"H", "D", "C", "S">>

Range(s) == {s[i] : i \in 1..Len(s)}

\* Card.__init__: rank and suit must be of the fixed sets.
Card_pre(rank, suit) == rank \in Range(CARD_RANK) /\ suit \in Range(CARD_SUIT)

Card(rank, suit) == [rank |-> rank, suit |-> suit]

\* Card.ace
Card_ace(c) == c.rank = "A"

\* int(rank): the ranks Python's int() converts, and what it converts them to;
\* on the others it raises ValueError.
IntRanks == {"10", "9", "8", "7", "6", "5", "4", "3", "2"}

int(rank) ==
    CASE rank = "10" -> 10
      [] rank = "9" -> 9
      [] rank = "8" -> 8
      [] rank = "7" -> 7
      [] rank = "6" -> 6
      [] rank = "5" -> 5
      [] rank = "4" -> 4
      [] rank = "3" -> 3
      [] rank = "2" -> 2

\* Card.value
Card_value(c) ==
    IF Card_ace(c) THEN 11
    ELSE IF c.rank \in IntRanks THEN int(c.rank)
    ELSE 10

----------------------------------------------------------------------------
(* Hands.                                                                  *)

\* Hand.__init__
Hand(stake) == [cards |-> <<>>, stake |-> stake, active |-> TRUE]

\* Hand.first, Hand.last (both assert the hand holds a card)
Hand_first(h) == h.cards[1]
Hand_last(h) == h.cards[Len(h.cards)]

\* Hand.add_card
Hand_add_card(h, c) == [h EXCEPT !.cards = Append(@, c)]

RECURSIVE SumValues(_)
SumValues(cards) ==
    IF cards = <<>> THEN 0
    ELSE Card_value(Head(cards)) + SumValues(Tail(cards))

CountAces(cards) == Cardinality({i \in 1..Len(cards) : Card_ace(cards[i])})

\* Mutant of Soften: one ace at most is discounted (an if for the while).
Soften_once(value, aces) ==
    IF value > 21 /\ aces > 0 THEN value - 10 ELSE value

\* The while loop of Hand.value.
RECURSIVE Soften(_, _)
Soften(value, aces) ==
    IF value > 21 /\ aces > 0 THEN Soften(value - 10, aces - 1) ELSE value

\* Hand.value
Hand_value(h) == Soften(SumValues(h.cards), CountAces(h.cards))

\* Hand.blackjack, Hand.twenty_one, Hand.bust
Hand_blackjack(h) == Len(h.cards) = 2 /\ Hand_value(h) = 21
Hand_twenty_one(h) == Hand_value(h) = 21
Hand_bust(h) == Hand_value(h) > 21

\* Mutant of Hand.pair: the cards' values are compared, not their ranks.
Hand_pair_by_value(h) ==
    Len(h.cards) = 2 /\ Card_value(Hand_first(h)) = Card_value(Hand_last(h))

\* Hand.pair
Hand_pair(h) == Len(h.cards) = 2 /\ Hand_first(h).rank = Hand_last(h).rank

\* Hand.split: asserts pair(); pops the last card into a new Hand of the same
\* stake. Hand_split_self is the hand afterwards, Hand_split the hand returned.
Hand_split_pre(h) == Hand_pair(h)
Hand_split_self(h) == [h EXCEPT !.cards = SubSeq(@, 1, Len(@) - 1)]

\* Mutant of Hand.split: the new hand is made with the default stake.
Hand_split_no_stake(h) == Hand_add_card(Hand(0), Hand_last(h))

Hand_split(h) == Hand_add_card(Hand(h.stake), Hand_last(h))

----------------------------------------------------------------------------
(* Players.                                                                *)

\* Player.__init__ (asserts chips > 0); name is the player's identity.
Player_pre(chips) == chips > 0

Player(name, chips) ==
    [name |-> name, chips |-> chips, hands |-> <<>>, insurance |-> 0,
     results |-> [wins |-> 0, ties |-> 0, losses |-> 0]]

\* Player.has_chips (asserts amount >= 0)
Player_has_chips_pre(amount) == amount >= 0

\* Mutant of Player.has_chips: the amount is ignored.
Player_has_chips_any(p, amount) == p.chips > 0

Player_has_chips(p, amount) ==
    IF amount = 0 THEN p.chips > 0 ELSE p.chips >= amount

\* Mutant of Player.can_double_down: the value test escapes the chips test.
Player_can_double_down_loose(p, h) ==
    \/ (Player_has_chips(p, h.stake) /\ Len(h.cards) = 2)
    \/ Hand_value(h) \in {9, 10, 11}

\* Player.can_double_down
Player_can_double_down(p, h) ==
    /\ Player_has_chips(p, h.stake)
    /\ (Len(h.cards) = 2 \/ Hand_value(h) \in {9, 10, 11})

\* Player.can_split
Player_can_split(p, h) == Player_has_chips(p, h.stake) /\ Hand_pair(h)

\* Player.has_active_hands
Player_has_active_hands(p) == \E i \in 1..Len(p.hands) : p.hands[i].active

\* Player.push (asserts bet > 0)
Player_push_pre(bet) == bet > 0

\* Mutant of Player.push: the tie is tallied as a win.
Player_push_as_win(p, bet) ==
    [p EXCEPT !.chips = @ + bet, !.results.wins = @ + 1]

Player_push(p, bet) ==
    [p EXCEPT !.chips = @ + bet, !.results.ties = @ + 1]

\* Player.win (asserts bet > 0 and odds >= 1): chips += int(bet * (odds + 1)).
\* bet * (odds + 1) is bet * (odds2 + 2) / 2, exact in floating point for the
\* amounts of the model, and int() truncates it.
Player_win_pre(bet, odds2) == bet > 0 /\ odds2 >= 2

\* Mutant of Player.win: the winnings are credited without the stake.
Player_win_no_stake(p, bet, odds2) ==
    [p EXCEPT !.chips = @ + ((bet * odds2) \div 2), !.results.wins = @ + 1]

Player_win(p, bet, odds2) ==
    [p EXCEPT !.chips = @ + ((bet * (odds2 + 2)) \div 2), !.results.wins = @ + 1]

\* Player.loss
Player_loss(p) == [p EXCEPT !.results.losses = @ + 1]

\* Mutant of Player.bet: the chips are not checked.
Player_bet_pre_unchecked(p, bet) == bet > 0

\* Player.bet (asserts bet > 0 and has_chips(bet)); returns bet.
Player_bet_pre(p, bet) == bet > 0 /\ Player_has_chips(p, bet)

Player_bet(p, bet) == [p EXCEPT !.chips = @ - bet]

----------------------------------------------------------------------------
(* The shoe.                                                               *)

\* Deck.__new_deck: one card of each rank and suit, rank-major.
Deck_new_deck(suits) ==
    [i \in 1..(Len(ShoeRanks) * Len(suits)) |->
        Card(ShoeRanks[((i - 1) \div Len(suits)) + 1],
             suits[((i - 1) % Len(suits)) + 1])]

\* The orders random.shuffle can leave a list in: every rearrangement of it.
Shuffles(cards) ==
    {[i \in 1..Len(cards) |-> cards[f[i]]] : f \in Permutations(1..Len(cards))}

\* Mutant of Deck.deal: an empty shoe is not replaced, and has no card to deal.
Deck_deal_from_empty(cards, suits) ==
    IF cards = <<>> THEN {} ELSE {cards}

\* Deck.deal: the shoes deal() can pop from (the shoe itself, or any shuffle
\* of a new deck when the shoe is empty); it returns the last card of that
\* shoe and leaves the rest.
Deck_deal_from(cards, suits) ==
    IF cards = <<>> THEN Shuffles(Deck_new_deck(suits)) ELSE {cards}

Deck_deal_card(from) == from[Len(from)]

\* Mutant of Deck.deal: the card is read and left in the shoe.
Deck_deal_rest_peek(from) == from

Deck_deal_rest(from) == SubSeq(from, 1, Len(from) - 1)

----------------------------------------------------------------------------
(* Settlement.                                                             *)

\* Mutant of Game.settle_outcome: a bust dealer is not looked for.
Game_settle_outcome_no_bust(d, p, i) ==
    LET h == p.hands[i]
        q == [p EXCEPT !.hands[i].active = FALSE]
    IN IF Hand_value(h) > Hand_value(d)
       THEN Player_win(q, h.stake, IF Hand_blackjack(h) THEN 3 ELSE 2)
       ELSE IF Hand_value(h) = Hand_value(d)
       THEN Player_push(q, h.stake)
       ELSE Player_loss(q)

\* Mutant of Game.settle_outcome: a blackjack wins at odds of 1.
Game_settle_outcome_even_money(d, p, i) ==
    LET h == p.hands[i]
        q == [p EXCEPT !.hands[i].active = FALSE]
    IN IF Hand_value(h) > Hand_value(d) \/ Hand_bust(d)
       THEN Player_win(q, h.stake, 2)
       ELSE IF Hand_value(h) = Hand_value(d)
       THEN Player_push(q, h.stake)
       ELSE Player_loss(q)

\* Game.settle_outcome(dealer, player, hand), the hand being player.hands[i]:
\* the player afterwards. It raises AssertionError (from win or push, after
\* the hand was made inactive) when its precondition is false.
Game_settle_outcome_pre(d, p, i) ==
    LET h == p.hands[i]
    IN IF Hand_value(h) > Hand_value(d) \/ Hand_bust(d)
       THEN Player_win_pre(h.stake, IF Hand_blackjack(h) THEN 3 ELSE 2)
       ELSE IF Hand_value(h) = Hand_value(d)
       THEN Player_push_pre(h.stake)
       ELSE TRUE

Game_settle_outcome(d, p, i) ==
    LET h == p.hands[i]
        q == [p EXCEPT !.hands[i].active = FALSE]
    IN IF Hand_value(h) > Hand_value(d) \/ Hand_bust(d)
       THEN Player_win(q, h.stake, IF Hand_blackjack(h) THEN 3 ELSE 2)
       ELSE IF Hand_value(h) = Hand_value(d)
       THEN Player_push(q, h.stake)
       ELSE Player_loss(q)

----------------------------------------------------------------------------
(* The round engine.                                                       *)

\* min_bet of Game.setup, and the multiple its bets and the insurance bets
\* must be of.
MinBet == 10
BetMultiple == 2

\* Mutant of Game.__get_bet: an amount that is no multiple is accepted.
Game_get_bet_any_multiple(p, minimum, multiple, entered) ==
    {bet \in entered : ~(bet < minimum \/ bet > p.chips)}

\* Mutant of Game.__get_bet: an amount above the player's chips is accepted.
Game_get_bet_above_chips(p, minimum, multiple, entered) ==
    {bet \in entered : ~(bet < minimum \/ bet % multiple # 0)}

\* Game.__get_bet: the answers the loop returns, of the amounts entered.
Game_get_bet(p, minimum, multiple, entered) ==
    {bet \in entered :
        ~(bet < minimum \/ bet > p.chips \/ bet % multiple # 0)}

\* Game.players_with_chips: the players' places in Game.players, in order.
Game_players_with_chips(ps, min) ==
    SelectSeq([i \in 1..Len(ps) |-> i], LAMBDA i : Player_has_chips(ps[i], min))

\* Game.has_active_hands
Game_has_active_hands(ps) == \E i \in 1..Len(ps) : Player_has_active_hands(ps[i])

\* Mutant of Game.bust: the loss is recorded and the hand stays active.
Game_bust_active(p, i) == Player_loss(p)

\* Game.bust
Game_bust(p, i) == [Player_loss(p) EXCEPT !.hands[i].active = FALSE]

\* The loops of check_for_dealer_blackjack ("dealer_blackjack"),
\* check_for_player_blackjack ("player_blackjack") and dealer_turn
\* ("dealer_turn") over active_players() and active_hands(), from hand hi of
\* player pi on: the players afterwards, and ok, false when a call raised
\* AssertionError and ended the loop.
RECURSIVE Game_settle_loop(_, _, _, _, _)
Game_settle_loop(ps, d, pi, hi, mode) ==
    IF pi > Len(ps) THEN [players |-> ps, ok |-> TRUE]
    ELSE IF hi > Len(ps[pi].hands) THEN Game_settle_loop(ps, d, pi + 1, 1, mode)
    ELSE IF ~ps[pi].hands[hi].active THEN Game_settle_loop(ps, d, pi, hi + 1, mode)
    ELSE IF mode = "player_blackjack" /\ ~Hand_blackjack(ps[pi].hands[hi])
    THEN Game_settle_loop(ps, d, pi, hi + 1, mode)
    ELSE
        LET p == ps[pi]
            insured == mode = "dealer_blackjack" /\ p.insurance # 0
            paid == IF insured THEN Player_win(p, p.insurance, 4) ELSE p
        IN IF insured /\ ~Player_win_pre(p.insurance, 4)
           THEN [players |-> ps, ok |-> FALSE]
           ELSE IF ~Game_settle_outcome_pre(d, paid, hi)
           THEN [players |-> [ps EXCEPT ![pi] = [paid EXCEPT !.hands[hi].active = FALSE]],
                 ok |-> FALSE]
           ELSE Game_settle_loop([ps EXCEPT ![pi] = Game_settle_outcome(d, paid, hi)],
                                 d, pi, hi + 1, mode)

\* The elif branch of check_for_dealer_blackjack: every player with an active
\* hand and an insurance bet records a loss.
Game_insurance_lost(ps) ==
    [i \in 1..Len(ps) |->
        IF Player_has_active_hands(ps[i]) /\ ps[i].insurance # 0
        THEN Player_loss(ps[i]) ELSE ps[i]]

\* Mutant of play_hand: the loop is left on a bust without a call of bust.
Game_play_hand_loop_break(ps, pi, hi) ==
    LET h == ps[pi].hands[hi]
    IN IF ~h.active THEN [players |-> ps, pc |-> "next_hand"]
       ELSE IF Hand_twenty_one(h) THEN [players |-> ps, pc |-> "next_hand"]
       ELSE IF Hand_bust(h) THEN [players |-> ps, pc |-> "next_hand"]
       ELSE [players |-> ps, pc |-> "decide"]

\* The top of the while loop of play_hand for hand hi of player pi: the
\* players afterwards and where main() is next, at the prompt for a decision
\* ("decide") or past the hand ("next_hand").
Game_play_hand_loop(ps, pi, hi) ==
    LET h == ps[pi].hands[hi]
    IN IF ~h.active THEN [players |-> ps, pc |-> "next_hand"]
       ELSE IF Hand_twenty_one(h) THEN [players |-> ps, pc |-> "next_hand"]
       ELSE IF Hand_bust(h)
       THEN [players |-> [ps EXCEPT ![pi] = Game_bust(@, hi)], pc |-> "next_hand"]
       ELSE [players |-> ps, pc |-> "decide"]

\* The answers play_hand accepts at its prompt.
Game_play_hand_answers(p, h) ==
    IF Player_can_double_down(p, h) THEN {"H", "S", "D"} ELSE {"H", "S"}

\* Mutant of Player.active_hands: the generator runs over the hands the
\* player had when it was started, the one hand of setup.
Player_active_hands_listed(p, hi) ==
    IF hi = 0 /\ p.hands # <<>> /\ p.hands[1].active THEN 1 ELSE 0

\* Mutant of Player.active_hands: the generator starts again from the first
\* hand at every call.
Player_active_hands_again(p, hi) ==
    LET js == {j \in 1..Len(p.hands) : p.hands[j].active}
    IN IF js = {} THEN 0 ELSE CHOOSE j \in js : \A k \in js : j <= k

\* active_hands() of a player, resumed after hand hi: the next active hand,
\* or 0 when the generator is exhausted.
Player_active_hands_next(p, hi) ==
    LET js == {j \in (hi + 1)..Len(p.hands) : p.hands[j].active}
    IN IF js = {} THEN 0 ELSE CHOOSE j \in js : \A k \in js : j <= k

\* active_players(), resumed after player pi: the next player with an active
\* hand, or 0 when the generator is exhausted.
Game_active_players_next(ps, pi) ==
    LET is == {i \in (pi + 1)..Len(ps) : Player_has_active_hands(ps[i])}
    IN IF is = {} THEN 0 ELSE CHOOSE i \in is : \A k \in is : i <= k

----------------------------------------------------------------------------
(* Harnesses: a harness constructs objects as the unit tests do and calls  *)
(* their methods in any order; call records the last call.                 *)

\* What the variables the harnesses leave alone hold.
HarnessIdle ==
    /\ playing = FALSE
    /\ queue = <<>>
    /\ cur = <<0, 0>>
    /\ rounds = 0

NoCall == [op |-> "none"]

\* The player and the hand a harness works on.
P1 == players[1]
H1 == players[1].hands[1]

\* A player who holds one hand.
Holding(p, h) == [p EXCEPT !.hands = <<h>>]

(* Hand.value: hands of up to MaxValueLen cards of every rank.             *)

ValueCards == {Card(CARD_RANK[i], CARD_SUIT[1]) : i \in 1..Len(CARD_RANK)}

ValueInit ==
    /\ HarnessIdle
    /\ pc = "value_harness"
    /\ deck = <<>>
    /\ dealer = <<>>
    /\ players = <<Holding(Player("P", 100), Hand(0))>>
    /\ call = NoCall

\* hand.add_card(card)
ValueAddCard ==
    /\ pc = "value_harness"
    /\ Len(H1.cards) < MaxValueLen
    /\ \E c \in ValueCards :
        /\ players' = [players EXCEPT ![1].hands[1] = Hand_add_card(@, c)]
        /\ call' = [op |-> "add_card"]
    /\ UNCHANGED <<deck, dealer, playing, pc, queue, cur, rounds>>

\* hand.value() and hand.bust()
ValueCall ==
    /\ pc = "value_harness"
    /\ call' = [op |-> "value", ret |-> Hand_value(H1), bust |-> Hand_bust(H1)]
    /\ UNCHANGED <<deck, players, dealer, playing, pc, queue, cur, rounds>>

ValueNext == ValueAddCard \/ ValueCall

ValueSpec == ValueInit /\ [][ValueNext]_vars

(* Hand and Player.can_*: hands of up to MaxHandLen cards of every rank   *)
(* and of the suits HandSuits, held by a player. A player's hand is made   *)
(* by Hand(bet) with the bet __get_bet returned in setup(): at least       *)
(* min_bet. The chips are set as the tests set them (player.chips = 0).    *)

HandCards ==
    {Card(CARD_RANK[i], HandSuits[j]) : i \in 1..Len(CARD_RANK), j \in 1..Len(HandSuits)}

HandChips == {0, 10, 15}
HandStakes == {10, 20}

HandInit ==
    /\ HarnessIdle
    /\ pc = "hand_harness"
    /\ deck = <<>>
    /\ dealer = <<>>
    /\ \E chips \in HandChips, stake \in HandStakes :
        players = <<Holding([Player("P", 100) EXCEPT !.chips = chips], Hand(stake))>>
    /\ call = NoCall

\* hand.add_card(card)
HandAddCard ==
    /\ pc = "hand_harness"
    /\ Len(H1.cards) < MaxHandLen
    /\ \E c \in HandCards :
        /\ players' = [players EXCEPT ![1].hands[1] = Hand_add_card(@, c)]
        /\ call' = [op |-> "add_card"]
    /\ UNCHANGED <<deck, dealer, playing, pc, queue, cur, rounds>>

\* player.can_double_down(hand)
HandCanDoubleDown ==
    /\ pc = "hand_harness"
    /\ call' = [op |-> "can_double_down", ret |-> Player_can_double_down(P1, H1)]
    /\ UNCHANGED <<deck, players, dealer, playing, pc, queue, cur, rounds>>

\* player.can_split(hand)
HandCanSplit ==
    /\ pc = "hand_harness"
    /\ call' = [op |-> "can_split", ret |-> Player_can_split(P1, H1)]
    /\ UNCHANGED <<deck, players, dealer, playing, pc, queue, cur, rounds>>

\* hand.split()
HandSplit ==
    /\ pc = "hand_harness"
    /\ IF Hand_split_pre(H1)
       THEN /\ players' = [players EXCEPT ![1].hands[1] = Hand_split_self(@)]
            /\ call' = [op |-> "split", err |-> "", pre |-> P1, ret |-> Hand_split(H1)]
       ELSE /\ players' = players
            /\ call' = [op |-> "split", err |-> "AssertionError", pre |-> P1]
    /\ UNCHANGED <<deck, dealer, playing, pc, queue, cur, rounds>>

HandNext == HandAddCard \/ HandCanDoubleDown \/ HandCanSplit \/ HandSplit

HandSpec == HandInit /\ [][HandNext]_vars

(* Player: bet, win, push and loss on a player who holds a hand and an    *)
(* insurance bet.                                                          *)

PlayerInit ==
    /\ HarnessIdle
    /\ pc = "player_harness"
    /\ deck = <<>>
    /\ dealer = <<>>
    /\ \E chips \in 1..UnitChips, insurance \in {0, 2} :
        players = <<Holding([Player("P", chips) EXCEPT !.insurance = insurance],
                            Hand(10))>>
    /\ call = NoCall

\* player.bet(amount)
PlayerBet ==
    /\ pc = "player_harness"
    /\ \E amount \in -1..MaxAmount :
        IF Player_bet_pre(P1, amount)
        THEN /\ players' = [players EXCEPT ![1] = Player_bet(@, amount)]
             /\ call' = [op |-> "bet", amount |-> amount, pre |-> P1,
                         err |-> "", ret |-> amount]
        ELSE /\ players' = players
             /\ call' = [op |-> "bet", amount |-> amount, pre |-> P1,
                         err |-> "AssertionError"]
    /\ UNCHANGED <<deck, dealer, playing, pc, queue, cur, rounds>>

\* player.win(amount, odds), odds being 0.5, 1, 1.5 or 2
PlayerWin ==
    /\ pc = "player_harness"
    /\ P1.results.wins < MaxTally
    /\ \E amount \in 0..MaxAmount, odds2 \in 1..4 :
        IF Player_win_pre(amount, odds2)
        THEN /\ Player_win(P1, amount, odds2).chips <= MaxUnitChips
             /\ players' = [players EXCEPT ![1] = Player_win(@, amount, odds2)]
             /\ call' = [op |-> "win", amount |-> amount, odds2 |-> odds2,
                         pre |-> P1, err |-> ""]
        ELSE /\ players' = players
             /\ call' = [op |-> "win", amount |-> amount, odds2 |-> odds2,
                         pre |-> P1, err |-> "AssertionError"]
    /\ UNCHANGED <<deck, dealer, playing, pc, queue, cur, rounds>>

\* player.push(amount)
PlayerPush ==
    /\ pc = "player_harness"
    /\ P1.results.ties < MaxTally
    /\ \E amount \in 0..MaxAmount :
        IF Player_push_pre(amount)
        THEN /\ Player_push(P1, amount).chips <= MaxUnitChips
             /\ players' = [players EXCEPT ![1] = Player_push(@, amount)]
             /\ call' = [op |-> "push", amount |-> amount, pre |-> P1, err |-> ""]
        ELSE /\ players' = players
             /\ call' = [op |-> "push", amount |-> amount, pre |-> P1,
                         err |-> "AssertionError"]
    /\ UNCHANGED <<deck, dealer, playing, pc, queue, cur, rounds>>

\* player.loss()
PlayerLoss ==
    /\ pc = "player_harness"
    /\ P1.results.losses < MaxTally
    /\ players' = [players EXCEPT ![1] = Player_loss(@)]
    /\ call' = [op |-> "loss", pre |-> P1, err |-> ""]
    /\ UNCHANGED <<deck, dealer, playing, pc, queue, cur, rounds>>

PlayerNext == PlayerBet \/ PlayerWin \/ PlayerPush \/ PlayerLoss

PlayerSpec == PlayerInit /\ [][PlayerNext]_vars

(* Game.settle_outcome: a dealer's hand and a player's hand of two to      *)
(* MaxSettleLen cards of the shoe's ranks, the player's stake a bet that    *)
(* __get_bet accepts in setup() (at least min_bet, a multiple of 2).       *)

SettleCards == {Card(ShoeRanks[i], ShoeSuits[1]) : i \in 1..Len(ShoeRanks)}

SettleHands == UNION {[1..n -> SettleCards] : n \in 2..MaxSettleLen}

SettleInit ==
    /\ HarnessIdle
    /\ pc = "settle_harness"
    /\ deck = <<>>
    /\ \E d \in SettleHands, c \in SettleHands, stake \in {10, 12}, chips \in {0, 5} :
        /\ dealer = <<[Hand(0) EXCEPT !.cards = d]>>
        /\ players = <<Holding([Player("P", 100) EXCEPT !.chips = chips],
                               [Hand(stake) EXCEPT !.cards = c])>>
    /\ call = NoCall

\* game.settle_outcome(dealer, player, hand) on an active hand
SettleCall ==
    /\ pc = "settle_harness"
    /\ H1.active
    /\ IF Game_settle_outcome_pre(dealer[1], P1, 1)
       THEN /\ players' = [players EXCEPT ![1] = Game_settle_outcome(dealer[1], @, 1)]
            /\ call' = [op |-> "settle", pre |-> P1, err |-> ""]
       ELSE /\ players' = [players EXCEPT ![1].hands[1].active = FALSE]
            /\ call' = [op |-> "settle", pre |-> P1, err |-> "AssertionError"]
    /\ UNCHANGED <<deck, dealer, playing, pc, queue, cur, rounds>>

SettleNext == SettleCall

SettleSpec == SettleInit /\ [][SettleNext]_vars

(* Deck: shuffle() and deal() on a new Deck().                             *)

DeckInit ==
    /\ HarnessIdle
    /\ pc = "deck_harness"
    /\ deck = Deck_new_deck(DeckSuits)
    /\ dealer = <<>>
    /\ players = <<>>
    /\ call = NoCall

\* deck.shuffle()
DeckShuffle ==
    /\ pc = "deck_harness"
    /\ deck' \in Shuffles(deck)
    /\ call' = [op |-> "shuffle"]
    /\ UNCHANGED <<players, dealer, playing, pc, queue, cur, rounds>>

\* deck.deal()
DeckDeal ==
    /\ pc = "deck_harness"
    /\ \E from \in Deck_deal_from(deck, DeckSuits) :
        /\ deck' = Deck_deal_rest(from)
        /\ call' = [op |-> "deal", pre |-> deck, ret |-> Deck_deal_card(from)]
    /\ UNCHANGED <<players, dealer, playing, pc, queue, cur, rounds>>

DeckNext == DeckShuffle \/ DeckDeal

DeckSpec == DeckInit /\ [][DeckNext]_vars

----------------------------------------------------------------------------
(* main(): a session of NumPlayers players. pc is the prompt main() waits   *)
(* at, or the step it is about to take:                                     *)
(*   "continue"      input("Hit enter to continue - ctrl-c to exit: ")      *)
(*   "bet"           __get_bet in setup, for player queue[cur[1]]           *)
(*   "deal"          the two passes of setup, cur = <<pass, place>>         *)
(*   "offer"         offer_insurance is about to run                        *)
(*   "insure"        __get_bet in offer_insurance, for player queue[cur[1]] *)
(*   "check_dealer"  check_for_dealer_blackjack is about to run             *)
(*   "check_player"  check_for_player_blackjack is about to run             *)
(*   "next_hand"     the for loops of main() take their next hand           *)
(*   "split"         get_response in split_hand, for hand cur               *)
(*   "decide"        get_response in play_hand, for hand cur                *)
(*   "dealer"        dealer_turn is drawing                                 *)
(*   "over"          main() has printed the results                         *)
(*   "AssertionError" an assert has failed                                  *)

Init ==
    /\ deck \in Shuffles(Deck_new_deck(ShoeSuits))
    /\ players = [i \in 1..NumPlayers |-> Player(i, StartChips)]
    /\ dealer = <<>>
    /\ playing = FALSE
    /\ pc = "continue"
    /\ queue = <<>>
    /\ cur = <<0, 0>>
    /\ rounds = 0
    /\ call = NoCall

\* main: no player can bet, and the session ends.
GameOver ==
    /\ pc = "continue"
    /\ Game_players_with_chips(players, MinBet) = <<>>
    /\ pc' = "over"
    /\ UNCHANGED <<deck, players, dealer, playing, queue, cur, rounds, call>>

\* main and the head of setup: a round starts; the players are shuffled and
\* those who can bet are listed.
StartRound ==
    /\ pc = "continue"
    /\ Game_players_with_chips(players, MinBet) # <<>>
    /\ rounds < MaxRounds
    /\ \E ps \in Shuffles(players) :
        /\ players' = ps
        /\ queue' = Game_players_with_chips(ps, MinBet)
    /\ playing' = TRUE
    /\ pc' = "bet"
    /\ cur' = <<1, 0>>
    /\ rounds' = rounds + 1
    /\ UNCHANGED <<deck, dealer, call>>

\* setup: a player bets and gets a new hand; after the last bet the dealer's
\* hand is made (the local dealer of setup, which becomes Game.dealer).
PlaceBet ==
    /\ pc = "bet"
    /\ LET i == queue[cur[1]] IN
       \E bet \in Game_get_bet(players[i], MinBet, BetMultiple, 0..MaxBet) :
        IF Player_bet_pre(players[i], bet)
        THEN /\ players' = [players EXCEPT ![i] = Holding(Player_bet(@, bet), Hand(bet))]
             /\ IF cur[1] < Len(queue)
                THEN /\ cur' = <<cur[1] + 1, 0>>
                     /\ UNCHANGED <<pc, dealer>>
                ELSE /\ cur' = <<1, 1>>
                     /\ pc' = "deal"
                     /\ dealer' = <<Hand(0)>>
        ELSE /\ pc' = "AssertionError"
             /\ UNCHANGED <<players, cur, dealer>>
    /\ UNCHANGED <<deck, playing, queue, rounds, call>>

\* Mutant of setup: one pass only, a single card to every hand.
DealInitial_one_pass ==
    /\ pc = "deal"
    /\ \E from \in Deck_deal_from(deck, ShoeSuits) :
        /\ deck' = Deck_deal_rest(from)
        /\ IF cur[2] <= Len(queue)
           THEN /\ players' = [players EXCEPT ![queue[cur[2]]].hands[1] =
                                    Hand_add_card(@, Deck_deal_card(from))]
                /\ cur' = <<cur[1], cur[2] + 1>>
                /\ UNCHANGED <<dealer, pc>>
           ELSE /\ dealer' = <<Hand_add_card(dealer[1], Deck_deal_card(from))>>
                /\ cur' = <<0, 0>>
                /\ pc' = "offer"
                /\ UNCHANGED players
    /\ UNCHANGED <<playing, queue, rounds, call>>

\* setup: one card of the two passes, to the hand of the player at place
\* cur[2] of the list, or to the dealer after the last of them.
DealInitial ==
    /\ pc = "deal"
    /\ \E from \in Deck_deal_from(deck, ShoeSuits) :
        /\ deck' = Deck_deal_rest(from)
        /\ IF cur[2] <= Len(queue)
           THEN /\ players' = [players EXCEPT ![queue[cur[2]]].hands[1] =
                                    Hand_add_card(@, Deck_deal_card(from))]
                /\ cur' = <<cur[1], cur[2] + 1>>
                /\ UNCHANGED <<dealer, pc>>
           ELSE /\ dealer' = <<Hand_add_card(dealer[1], Deck_deal_card(from))>>
                /\ IF cur[1] < 2
                   THEN cur' = <<cur[1] + 1, 1>> /\ pc' = pc
                   ELSE cur' = <<0, 0>> /\ pc' = "offer"
                /\ UNCHANGED players
    /\ UNCHANGED <<playing, queue, rounds, call>>

\* Mutant of offer_insurance: the up-card is not looked at.
OfferInsurance_any_card ==
    /\ pc = "offer"
    /\ IF Game_players_with_chips(players, 0) # <<>>
       THEN /\ queue' = Game_players_with_chips(players, 0)
            /\ cur' = <<1, 0>>
            /\ pc' = "insure"
       ELSE /\ pc' = "check_dealer"
            /\ UNCHANGED <<queue, cur>>
    /\ UNCHANGED <<deck, players, dealer, playing, rounds, call>>

\* offer_insurance: the players with chips are listed if the dealer shows an ace.
OfferInsurance ==
    /\ pc = "offer"
    /\ IF Card_ace(Hand_first(dealer[1])) /\ Game_players_with_chips(players, 0) # <<>>
       THEN /\ queue' = Game_players_with_chips(players, 0)
            /\ cur' = <<1, 0>>
            /\ pc' = "insure"
       ELSE /\ pc' = "check_dealer"
            /\ UNCHANGED <<queue, cur>>
    /\ UNCHANGED <<deck, players, dealer, playing, rounds, call>>

\* offer_insurance: a player answers with an insurance bet, or with 0.
Insure ==
    /\ pc = "insure"
    /\ LET i == queue[cur[1]] IN
       \E bet \in Game_get_bet(players[i], 0, BetMultiple, 0..MaxInsurance) :
        IF bet > 0 => Player_bet_pre(players[i], bet)
        THEN /\ players' = [players EXCEPT ![i] =
                    IF bet > 0 THEN [Player_bet(@, bet) EXCEPT !.insurance = bet]
                    ELSE [@ EXCEPT !.insurance = 0]]
             /\ IF cur[1] < Len(queue)
                THEN cur' = <<cur[1] + 1, 0>> /\ pc' = pc
                ELSE cur' = <<0, 0>> /\ pc' = "check_dealer"
        ELSE /\ pc' = "AssertionError"
             /\ UNCHANGED <<players, cur>>
    /\ UNCHANGED <<deck, dealer, playing, queue, rounds, call>>

\* Mutant of check_for_dealer_blackjack: a blackjack is only looked for behind
\* an ace.
CheckDealerBlackjack_behind_ace ==
    /\ pc = "check_dealer"
    /\ IF Card_ace(Hand_first(dealer[1])) /\ Hand_blackjack(dealer[1])
       THEN LET r == Game_settle_loop(players, dealer[1], 1, 1, "dealer_blackjack") IN
            /\ playing' = FALSE
            /\ players' = r.players
            /\ pc' = IF r.ok THEN "check_player" ELSE "AssertionError"
       ELSE IF Card_ace(Hand_first(dealer[1]))
       THEN /\ players' = Game_insurance_lost(players)
            /\ pc' = "check_player"
            /\ UNCHANGED playing
       ELSE /\ pc' = "check_player"
            /\ UNCHANGED <<players, playing>>
    /\ UNCHANGED <<deck, dealer, queue, cur, rounds, call>>

\* check_for_dealer_blackjack
CheckDealerBlackjack ==
    /\ pc = "check_dealer"
    /\ IF Hand_blackjack(dealer[1])
       THEN LET r == Game_settle_loop(players, dealer[1], 1, 1, "dealer_blackjack") IN
            /\ playing' = FALSE
            /\ players' = r.players
            /\ pc' = IF r.ok THEN "check_player" ELSE "AssertionError"
       ELSE IF Card_ace(Hand_first(dealer[1]))
       THEN /\ players' = Game_insurance_lost(players)
            /\ pc' = "check_player"
            /\ UNCHANGED playing
       ELSE /\ pc' = "check_player"
            /\ UNCHANGED <<players, playing>>
    /\ UNCHANGED <<deck, dealer, queue, cur, rounds, call>>

\* check_for_player_blackjack, and main's test of game.playing
CheckPlayerBlackjack ==
    /\ pc = "check_player"
    /\ LET r == Game_settle_loop(players, dealer[1], 1, 1, "player_blackjack") IN
        /\ players' = r.players
        /\ pc' = IF ~r.ok THEN "AssertionError"
                 ELSE IF playing THEN "next_hand" ELSE "continue"
    /\ cur' = <<0, 0>>
    /\ UNCHANGED <<deck, dealer, playing, queue, rounds, call>>

\* main: the for loops over active_players() and active_hands() take the next
\* hand, and play_hand runs to its first prompt; with no hand left, main
\* goes on to the dealer's turn if a hand is still active.
NextHand ==
    /\ pc = "next_hand"
    /\ LET hi == IF cur[1] = 0 THEN 0 ELSE Player_active_hands_next(players[cur[1]], cur[2])
           pi == IF hi # 0 THEN cur[1] ELSE Game_active_players_next(players, cur[1])
           hj == IF hi # 0 THEN hi
                 ELSE IF pi # 0 THEN Player_active_hands_next(players[pi], 0) ELSE 0
       IN IF pi = 0
          THEN /\ pc' = IF Game_has_active_hands(players) THEN "dealer" ELSE "continue"
               /\ cur' = <<0, 0>>
               /\ UNCHANGED players
          ELSE /\ cur' = <<pi, hj>>
               /\ IF Player_can_split(players[pi], players[pi].hands[hj])
                  THEN pc' = "split" /\ UNCHANGED players
                  ELSE LET r == Game_play_hand_loop(players, pi, hj) IN
                       pc' = r.pc /\ players' = r.players
    /\ UNCHANGED <<deck, dealer, playing, queue, rounds, call>>

\* split_hand: the answer to "would you like to split your pair?"; after a
\* split, play_hand runs to its next prompt.
SplitHand ==
    /\ pc = "split"
    /\ LET pi == cur[1]
           hi == cur[2]
           p == players[pi]
           h == p.hands[hi]
       IN \E resp \in {"Y", "N"} :
           IF resp = "N"
           THEN LET r == Game_play_hand_loop(players, pi, hi) IN
                pc' = r.pc /\ players' = r.players /\ UNCHANGED deck
           ELSE IF ~Hand_split_pre(h)
           THEN pc' = "AssertionError" /\ UNCHANGED <<players, deck>>
           ELSE IF ~Player_bet_pre(p, h.stake)
           THEN /\ pc' = "AssertionError"
                /\ players' = [players EXCEPT ![pi].hands[hi] = Hand_split_self(h)]
                /\ UNCHANGED deck
           ELSE \E from1 \in Deck_deal_from(deck, ShoeSuits) :
                \E from2 \in Deck_deal_from(Deck_deal_rest(from1), ShoeSuits) :
                LET kept == Hand_add_card(Hand_split_self(h), Deck_deal_card(from1))
                    new == Hand_add_card(Hand_split(h), Deck_deal_card(from2))
                    q == [Player_bet(p, h.stake) EXCEPT
                            !.hands = Append([@ EXCEPT ![hi] = kept], new)]
                    r == Game_play_hand_loop([players EXCEPT ![pi] = q], pi, hi)
                IN /\ deck' = Deck_deal_rest(from2)
                   /\ pc' = r.pc
                   /\ players' = r.players
    /\ UNCHANGED <<dealer, playing, queue, cur, rounds, call>>

\* play_hand: the answer to "would you like to hit, stand or double down?",
\* and on to the next prompt.
Decide ==
    /\ pc = "decide"
    /\ LET pi == cur[1]
           hi == cur[2]
           p == players[pi]
           h == p.hands[hi]
       IN \E resp \in Game_play_hand_answers(p, h) :
           CASE resp = "H" ->
                \E from \in Deck_deal_from(deck, ShoeSuits) :
                LET q == [p EXCEPT !.hands[hi] = Hand_add_card(@, Deck_deal_card(from))]
                    r == Game_play_hand_loop([players EXCEPT ![pi] = q], pi, hi)
                IN /\ deck' = Deck_deal_rest(from)
                   /\ pc' = r.pc
                   /\ players' = r.players
             [] resp = "S" ->
                pc' = "next_hand" /\ UNCHANGED <<players, deck>>
             [] resp = "D" ->
                IF ~Player_bet_pre(p, h.stake)
                THEN pc' = "AssertionError" /\ UNCHANGED <<players, deck>>
                ELSE \E from \in Deck_deal_from(deck, ShoeSuits) :
                     LET dealt == [Hand_add_card(h, Deck_deal_card(from)) EXCEPT
                                      !.stake = h.stake + h.stake]
                         q == [Player_bet(p, h.stake) EXCEPT !.hands[hi] = dealt]
                     IN /\ deck' = Deck_deal_rest(from)
                        /\ pc' = "next_hand"
                        /\ players' = [players EXCEPT ![pi] =
                                IF Hand_bust(dealt) THEN Game_bust(q, hi) ELSE q]
    /\ UNCHANGED <<dealer, playing, queue, cur, rounds, call>>

\* Mutant of dealer_turn: the dealer also draws on 17.
DealerDraw_on_17 ==
    /\ pc = "dealer"
    /\ Hand_value(dealer[1]) <= 17
    /\ \E from \in Deck_deal_from(deck, ShoeSuits) :
        /\ deck' = Deck_deal_rest(from)
        /\ dealer' = <<Hand_add_card(dealer[1], Deck_deal_card(from))>>
    /\ UNCHANGED <<players, playing, pc, queue, cur, rounds, call>>

\* dealer_turn: the dealer draws a card while the hand is worth less than 17.
DealerDraw ==
    /\ pc = "dealer"
    /\ Hand_value(dealer[1]) < 17
    /\ \E from \in Deck_deal_from(deck, ShoeSuits) :
        /\ deck' = Deck_deal_rest(from)
        /\ dealer' = <<Hand_add_card(dealer[1], Deck_deal_card(from))>>
    /\ UNCHANGED <<players, playing, pc, queue, cur, rounds, call>>

\* dealer_turn: the dealer stands or is bust, and every active hand is settled.
DealerSettle ==
    /\ pc = "dealer"
    /\ ~(Hand_value(dealer[1]) < 17)
    /\ LET r == Game_settle_loop(players, dealer[1], 1, 1, "dealer_turn") IN
        /\ players' = r.players
        /\ pc' = IF r.ok THEN "continue" ELSE "AssertionError"
    /\ UNCHANGED <<deck, dealer, playing, queue, cur, rounds, call>>

\* main: ctrl-c at a prompt raises KeyboardInterrupt, and main prints the
\* results.
Interrupt ==
    /\ pc \in {"continue", "bet", "insure", "split", "decide"}
    /\ pc' = "over"
    /\ UNCHANGED <<deck, players, dealer, playing, queue, cur, rounds, call>>

Next ==
    \/ GameOver
    \/ StartRound
    \/ PlaceBet
    \/ DealInitial
    \/ OfferInsurance
    \/ Insure
    \/ CheckDealerBlackjack
    \/ CheckPlayerBlackjack
    \/ NextHand
    \/ SplitHand
    \/ Decide
    \/ DealerDraw
    \/ DealerSettle
    \/ Interrupt

Spec == Init /\ [][Next]_vars

\* A session of two players after its first round, in which both bet 12:
\* player 1 stood on A 5 and lost, player 2 hit K K, drew an ace and tied with
\* the dealer, who drew a 5 to 5 A. Two shoes of three cards were dealt out
\* and a king is left of the third. Player 1 has too few chips left to bet
\* in the round to come.
SecondRoundInit ==
    /\ deck = <<Card("K", "H")>>
    /\ players =
        << Holding(Player_loss(Player_bet(Player(1, StartChips), 12)),
                   [Hand(12) EXCEPT !.cards = <<Card("A", "H"), Card("5", "H")>>,
                                    !.active = FALSE]),
           Holding(Player_push(Player_bet(Player(2, StartChips), 12), 12),
                   [Hand(12) EXCEPT !.cards = <<Card("K", "H"), Card("K", "H"),
                                                Card("A", "H")>>,
                                    !.active = FALSE]) >>
    /\ dealer = <<[Hand(0) EXCEPT !.cards = <<Card("5", "H"), Card("A", "H"),
                                               Card("5", "H")>>]>>
    /\ playing = TRUE
    /\ pc = "continue"
    /\ queue = <<1, 2>>
    /\ cur = <<0, 0>>
    /\ rounds = 1
    /\ call = NoCall

SecondRoundSpec == SecondRoundInit /\ [][Next]_vars

\* The steps of a session in which every prompt of a round is answered: all
\* the steps of main but ctrl-c.
Answered ==
    \/ GameOver
    \/ StartRound
    \/ PlaceBet
    \/ DealInitial
    \/ OfferInsurance
    \/ Insure
    \/ CheckDealerBlackjack
    \/ CheckPlayerBlackjack
    \/ NextHand
    \/ SplitHand
    \/ Decide
    \/ DealerDraw
    \/ DealerSettle

\* ctrl-c at the prompt between two rounds.
InterruptBetweenRounds == pc = "continue" /\ Interrupt

AnsweredNext == Answered \/ InterruptBetweenRounds

\* The second round of the session of SecondRoundInit. main runs on from
\* statement to statement, and a prompt that is answered lets it go on: a
\* step that stays possible is taken.
AnsweredSecondRoundSpec ==
    SecondRoundInit /\ [][AnsweredNext]_vars /\ WF_vars(Answered)

----------------------------------------------------------------------------
(* What the claims are stated in.                                          *)

\* The face value of a rank: an ace 11, a court card 10, a numeral itself.
FaceValue(rank) ==
    CASE rank = "A" -> 11
      [] rank \in {"K", "Q", "J", "10"} -> 10
      [] rank = "9" -> 9
      [] rank = "8" -> 8
      [] rank = "7" -> 7
      [] rank = "6" -> 6
      [] rank = "5" -> 5
      [] rank = "4" -> 4
      [] rank = "3" -> 3
      [] rank = "2" -> 2

RECURSIVE RawSum(_)
RawSum(cards) ==
    IF cards = <<>> THEN 0 ELSE FaceValue(Head(cards).rank) + RawSum(Tail(cards))

NumAces(cards) == Cardinality({i \in 1..Len(cards) : cards[i].rank = "A"})

\* The aces to count as 1: the least k in 0..#aces that brings the raw sum to
\* 21 or less, or #aces when there is none.
Discounts(cards) ==
    LET n == NumAces(cards)
        ok == {k \in 0..n : RawSum(cards) - 10 * k <= 21}
    IN IF ok = {} THEN n ELSE CHOOSE k \in ok : \A j \in ok : k <= j

\* C1: Hand.value() is the raw sum of the face values less 10 for each of the
\* fewest aces that bring it to 21 or less (all of them if none does); so it
\* never exceeds the raw sum, two aces are worth 12, and bust() is true exactly
\* when the hand exceeds 21 with every ace counted as 1.
C1_ValueIsSoftenedSum ==
    call.op = "value" =>
        LET cards == H1.cards IN
        /\ call.ret = RawSum(cards) - 10 * Discounts(cards)
        /\ call.ret <= RawSum(cards)
        /\ (Len(cards) = 2 /\ NumAces(cards) = 2 => call.ret = 12)
        /\ (call.bust <=> RawSum(cards) - 10 * NumAces(cards) > 21)

\* A hand of four cards with two aces, of which only one is discounted
\* (the hand of test_calculates_points_correctly after three cards and more).
C1_Witness ==
    /\ call.op = "value"
    /\ Len(H1.cards) = 4
    /\ NumAces(H1.cards) = 2
    /\ Discounts(H1.cards) = 1
    /\ call.ret < RawSum(H1.cards)

\* The value of a hand as the claims define it.
ClaimValue(cards) == RawSum(cards) - 10 * Discounts(cards)

\* Two cards of equal rank.
ClaimPair(cards) == Len(cards) = 2 /\ cards[1].rank = cards[2].rank

\* C7: can_double_down(hand) is true exactly when the chips cover the hand's
\* stake and the hand has two cards or is worth 9, 10 or 11.
C7_CanDoubleDown ==
    call.op = "can_double_down" =>
        (call.ret <=>
            /\ P1.chips >= H1.stake
            /\ (Len(H1.cards) = 2 \/ ClaimValue(H1.cards) \in {9, 10, 11}))

\* A hand of three cards worth 9 to 11 whose stake is all the player's chips.
C7_Witness ==
    /\ call.op = "can_double_down"
    /\ call.ret
    /\ Len(H1.cards) = 3
    /\ P1.chips = H1.stake

\* C8: can_split(hand) is true exactly when the chips cover the hand's stake
\* once more and the hand is two cards of equal rank, whatever their suits;
\* a hand of three cards is never splittable.
C8_CanSplit ==
    call.op = "can_split" =>
        /\ call.ret <=> (P1.chips >= H1.stake /\ ClaimPair(H1.cards))
        /\ Len(H1.cards) = 3 => ~call.ret

\* A splittable pair of different suits, and the chips exactly the stake.
C8_Witness ==
    /\ call.op = "can_split"
    /\ call.ret
    /\ H1.cards[1].suit # H1.cards[2].suit
    /\ P1.chips = H1.stake

\* C9: split() on a hand that is no pair fails and changes neither the cards
\* nor the stake; on a pair it returns a new active hand with one of the two
\* cards and the same stake, leaves the other card and the stake in the
\* original hand, and changes no chips.
C9_Split ==
    call.op = "split" =>
        LET before == call.pre.hands[1] IN
        IF ClaimPair(before.cards)
        THEN /\ call.err = ""
             /\ call.ret.active
             /\ call.ret.stake = before.stake
             /\ call.ret.cards = <<before.cards[2]>>
             /\ H1.cards = <<before.cards[1]>>
             /\ H1.stake = before.stake
             /\ H1.active = before.active
             /\ P1.chips = call.pre.chips
        ELSE /\ call.err = "AssertionError"
             /\ P1 = call.pre

\* A pair of different suits has been split.
C9_Witness ==
    /\ call.op = "split"
    /\ call.err = ""
    /\ call.ret.cards[1].suit # H1.cards[1].suit
    /\ call.ret.stake = 20

\* The tallies other than one are what they were before the call, and that
\* one is one more.
OnlyTally(field) ==
    /\ P1.results.wins = call.pre.results.wins + (IF field = "wins" THEN 1 ELSE 0)
    /\ P1.results.ties = call.pre.results.ties + (IF field = "ties" THEN 1 ELSE 0)
    /\ P1.results.losses = call.pre.results.losses + (IF field = "losses" THEN 1 ELSE 0)

\* C2: settle_outcome on an active hand applies exactly one outcome and makes
\* the hand inactive: a win if the dealer is bust or the hand is worth more
\* than the dealer's, at odds 1.5 for a blackjack (two cards worth 21) and 1
\* otherwise; else a push that returns the stake if the two are worth the same;
\* else a loss that credits nothing.
C2_SettleOutcome ==
    call.op = "settle" =>
        LET h == call.pre.hands[1]
            hv == ClaimValue(h.cards)
            dv == ClaimValue(dealer[1].cards)
            gain == P1.chips - call.pre.chips
        IN /\ call.err = ""
           /\ ~H1.active
           /\ H1.cards = h.cards /\ H1.stake = h.stake
           /\ IF dv > 21 \/ hv > dv
              THEN /\ OnlyTally("wins")
                   /\ IF Len(h.cards) = 2 /\ hv = 21
                      THEN 2 * gain = 5 * h.stake
                      ELSE gain = 2 * h.stake
              ELSE IF hv = dv
              THEN OnlyTally("ties") /\ gain = h.stake
              ELSE OnlyTally("losses") /\ gain = 0

\* The dealer is bust with more than the hand is worth, and the hand has won.
C2_Witness ==
    /\ call.op = "settle"
    /\ ClaimValue(dealer[1].cards) > 21
    /\ ClaimValue(H1.cards) < 21
    /\ P1.results.wins = 1
    /\ ~H1.active

\* C4: bet(amount) with 0 < amount <= chips takes exactly amount from the
\* chips, returns amount and changes no tally; with any other amount it fails
\* and changes neither the chips nor a tally.
C4_Bet ==
    call.op = "bet" =>
        IF 0 < call.amount /\ call.amount <= call.pre.chips
        THEN /\ call.err = ""
             /\ call.ret = call.amount
             /\ P1.chips = call.pre.chips - call.amount
             /\ P1.results = call.pre.results
        ELSE /\ call.err = "AssertionError"
             /\ P1.chips = call.pre.chips
             /\ P1.results = call.pre.results

\* A bet of more than the chips has failed.
C4_Witness ==
    /\ call.op = "bet"
    /\ call.amount > call.pre.chips
    /\ call.pre.chips > 0
    /\ call.err = "AssertionError"

\* C5 as claimed: win(amount, odds) credits exactly amount * (1 + odds) for
\* every positive amount and odds of 1, 1.5 and 2, and adds one to the wins
\* and nothing to the ties and losses.
C5_WinCreditsExactly ==
    call.op = "win" /\ call.amount > 0 /\ call.odds2 \in {2, 3, 4} =>
        /\ call.err = ""
        /\ 2 * (P1.chips - call.pre.chips) = call.amount * (2 + call.odds2)
        /\ OnlyTally("wins")

\* C5 as amended: win(amount, odds) credits amount * (1 + odds) rounded down
\* to a whole chip, which is exactly amount * (1 + odds) when the amount is
\* even or the odds are 1 or 2, and adds one to the wins and nothing to the
\* ties and losses.
C5_WinCreditsWholeChips ==
    call.op = "win" /\ call.amount > 0 /\ call.odds2 \in {2, 3, 4} =>
        LET gain == P1.chips - call.pre.chips
            due2 == call.amount * (2 + call.odds2)
        IN /\ call.err = ""
           /\ 2 * gain <= due2 /\ due2 < 2 * gain + 2
           /\ (call.amount % 2 = 0 \/ call.odds2 \in {2, 4} => 2 * gain = due2)
           /\ OnlyTally("wins")

\* An odd amount has won at odds of 1.5.
C5_Witness ==
    /\ call.op = "win"
    /\ call.err = ""
    /\ call.amount = 3
    /\ call.odds2 = 3

\* C6: push(amount) adds exactly amount to the chips and one to the ties only;
\* loss() leaves the chips and adds one to the losses only; neither changes the
\* player's hands or insurance.
C6_PushAndLoss ==
    /\ call.op = "push" /\ call.err = "" =>
        /\ P1.chips = call.pre.chips + call.amount
        /\ OnlyTally("ties")
        /\ P1.hands = call.pre.hands /\ P1.insurance = call.pre.insurance
    /\ call.op = "loss" =>
        /\ P1.chips = call.pre.chips
        /\ OnlyTally("losses")
        /\ P1.hands = call.pre.hands /\ P1.insurance = call.pre.insurance

\* A push after a loss, of a player who holds a hand and an insurance bet.
C6_Witness ==
    /\ call.op = "push"
    /\ call.err = ""
    /\ call.pre.results.losses > 0
    /\ P1.hands # <<>>
    /\ P1.insurance > 0

\* The cards of a new deck, and how many they are (52 of the 13 ranks and 4
\* suits; of the shoe of the model, its ranks times its suits).
FullShoe == Range(Deck_new_deck(DeckSuits))
ShoeSize == Len(ShoeRanks) * Len(DeckSuits)

\* C10: after any shuffle() and deal() calls the shoe holds from 0 to a full
\* deck of cards, none twice; deal() does not fail, takes exactly one card
\* from a shoe that is not empty, and from an empty shoe leaves a full deck
\* less the card it returns.
C10_Shoe ==
    /\ Len(deck) \in 0..ShoeSize
    /\ \A i, j \in 1..Len(deck) : deck[i] = deck[j] => i = j
    /\ Range(deck) \subseteq FullShoe
    /\ call.op = "deal" =>
        /\ call.ret \notin Range(deck)
        /\ IF call.pre # <<>>
           THEN /\ Len(deck) = Len(call.pre) - 1
                /\ Range(deck) \cup {call.ret} = Range(call.pre)
           ELSE /\ Len(deck) = ShoeSize - 1
                /\ Range(deck) \cup {call.ret} = FullShoe
                /\ Cardinality(FullShoe) = ShoeSize

\* deal() has been called on an empty shoe.
C10_Witness ==
    /\ call.op = "deal"
    /\ call.pre = <<>>
    /\ Len(deck) = ShoeSize - 1

\* C3: in every state of a session, whatever the bets, the decisions and the
\* order of the cards, every player's chips are an integer that is not
\* negative.
C3_ChipsNeverNegative ==
    \A i \in 1..Len(players) :
        /\ players[i].chips \in Int
        /\ players[i].chips >= 0

\* A player has put every chip on the table, in a second hand made by a split
\* or in a stake that was doubled, and the round goes on.
C3_Witness ==
    /\ playing
    /\ pc \in {"next_hand", "split", "decide", "dealer"}
    /\ \E i \in 1..Len(players) :
        /\ players[i].chips = 0
        /\ \/ Len(players[i].hands) > 1
           \/ \E j \in 1..Len(players[i].hands) : players[i].hands[j].stake > MaxBet

\* The dealer's up-card of the round.
UpCard == Hand_first(dealer[1])

\* C11: when check_for_dealer_blackjack runs, a player's insurance is not 0
\* only if the dealer's up-card of this round is an ace (so that the bet was
\* placed in this round), and with another up-card the check pays no
\* insurance: no player records a win in it.
C11_NoStaleInsurance ==
    [][pc = "check_dealer" =>
        \A i \in 1..Len(players) :
            /\ players[i].insurance # 0 => Card_ace(UpCard)
            /\ ~Card_ace(UpCard) =>
                   players'[i].results.wins = players[i].results.wins]_vars

\* C12: an insurance bet of x chips is resolved by the check of the round it
\* was placed in: with a dealer's blackjack the player is credited 3x chips
\* (besides what the main hand returns, its stake at most) and a win, and
\* with an ace that makes no blackjack the player records a loss and is
\* credited nothing.
C12_InsuranceResolved ==
    [][pc = "check_dealer" /\ Card_ace(UpCard) =>
        \A i \in 1..Len(players) :
            LET p == players[i]
                q == players'[i]
            IN p.insurance # 0 =>
                IF Hand_blackjack(dealer[1])
                THEN /\ q.results.wins = p.results.wins + 1
                     /\ q.chips - p.chips \in
                            {3 * p.insurance} \cup
                            {3 * p.insurance + p.hands[j].stake : j \in 1..Len(p.hands)}
                ELSE /\ q.results.losses = p.results.losses + 1
                     /\ q.chips = p.chips]_vars

\* What check_for_dealer_blackjack pays a player for insurance.
InsurancePaid(p) == IF p.insurance # 0 THEN 3 * p.insurance ELSE 0

\* The dealer's two cards of the round are a blackjack (the hands of the
\* round have been dealt, and the session has not ended).
DealerHasBlackjack ==
    /\ dealer # <<>>
    /\ pc \notin {"bet", "deal", "over"}
    /\ Hand_blackjack(dealer[1])

\* check_for_dealer_blackjack settles every active hand against the dealer's
\* blackjack: a push that returns the stake for a blackjack, a loss otherwise.
SettledAgainstBlackjack ==
    DealerHasBlackjack /\ pc = "check_dealer" =>
        \A i \in 1..Len(players) :
            LET p == players[i]
                q == players'[i]
                gain == q.chips - p.chips - InsurancePaid(p)
            IN Player_has_active_hands(p) =>
                /\ ~Player_has_active_hands(q)
                /\ IF Hand_blackjack(p.hands[1])
                   THEN /\ gain = p.hands[1].stake
                        /\ q.results.ties = p.results.ties + 1
                        /\ q.results.losses = p.results.losses
                   ELSE /\ gain = 0
                        /\ q.results.ties = p.results.ties
                        /\ q.results.losses = p.results.losses + 1

\* Once the dealer's blackjack is dealt, no hand is split or gets a card for
\* the rest of the round, and the dealer draws no card.
NoCardAfterBlackjack ==
    DealerHasBlackjack /\ pc # "continue" =>
        /\ dealer' = dealer
        /\ \A i \in 1..Len(players) :
            /\ Len(players'[i].hands) = Len(players[i].hands)
            /\ \A j \in 1..Len(players[i].hands) :
                    players'[i].hands[j].cards = players[i].hands[j].cards

\* C13: when the dealer's two cards are a blackjack, whatever the up-card,
\* check_for_dealer_blackjack settles every hand of the round, as a push that
\* returns the stake if the hand is a blackjack and as a loss otherwise; and
\* no decision is asked for, no hand is split or gets a card, and the dealer
\* draws no card.
C13_DealerBlackjackEndsRound ==
    /\ [](DealerHasBlackjack =>
            /\ pc \in {"offer", "insure", "check_dealer", "check_player", "continue"}
            /\ pc \in {"check_player", "continue"} =>
                   \A i \in 1..Len(players) : ~Player_has_active_hands(players[i])
            /\ \A i \in 1..Len(players) : \A j \in 1..Len(players[i].hands) :
                   players[i].hands[j].active =>
                       j = 1 /\ Len(players[i].hands[j].cards) = 2)
    /\ [][SettledAgainstBlackjack /\ NoCardAfterBlackjack]_vars

\* The dealer had a blackjack behind a king, and the player's blackjack has
\* tied with it.
C13_Witness ==
    /\ DealerHasBlackjack
    /\ ~Card_ace(UpCard)
    /\ pc = "check_player"
    /\ \E i \in 1..Len(players) :
        /\ Hand_blackjack(players[i].hands[1])
        /\ ~players[i].hands[1].active
        /\ players[i].results.ties > 0

\* check_for_player_blackjack pays the blackjacks and leaves the other hands.
BlackjacksPaid ==
    pc = "check_player" /\ ~Hand_blackjack(dealer[1]) =>
        \A i \in 1..Len(players) :
            LET p == players[i]
                q == players'[i]
            IN IF Player_has_active_hands(p) /\ Hand_blackjack(p.hands[1])
               THEN /\ ~q.hands[1].active
                    /\ 2 * (q.chips - p.chips) = 5 * p.hands[1].stake
                    /\ q.results.wins = p.results.wins + 1
                    /\ q.results.ties = p.results.ties
                    /\ q.results.losses = p.results.losses
               ELSE q = p

\* A player with no active hand is left alone by the turns of the round.
SettledLeftAlone ==
    pc \in {"next_hand", "split", "decide", "dealer"} =>
        \A i \in 1..Len(players) :
            ~Player_has_active_hands(players[i]) => players'[i] = players[i]

\* C14: when the dealer has no blackjack, check_for_player_blackjack settles
\* every hand of two cards worth 21 as a win that credits 2.5 times the stake
\* and one win, and makes it inactive; the other hands it leaves alone. The
\* hand is then never played (no prompt is for a blackjack), and a player
\* with no active hand is credited and tallied nothing more in the player
\* turns and the dealer's turn.
C14_PlayerBlackjackPaid ==
    /\ [](pc \in {"split", "decide"} =>
            ~Hand_blackjack(players[cur[1]].hands[cur[2]]))
    /\ [][BlackjacksPaid /\ SettledLeftAlone]_vars

\* A blackjack has been paid while the dealer, who has none, shows an ace.
C14_Witness ==
    /\ pc = "next_hand"
    /\ cur = <<0, 0>>
    /\ Card_ace(UpCard)
    /\ ~Hand_blackjack(dealer[1])
    /\ \E i \in 1..Len(players) :
        /\ Hand_blackjack(players[i].hands[1])
        /\ ~players[i].hands[1].active
        /\ players[i].results.wins > 0

\* C15: a split is only offered on the hand a player was dealt, never on a
\* hand made by a split, and a player holds two hands at most.
C15_OneSplit ==
    /\ \A i \in 1..Len(players) : Len(players[i].hands) <= 2
    /\ pc = "split" => cur[2] = 1

\* C16: the results of the session are only printed between rounds: when
\* main() has printed them, no hand is active, its stake taken and not
\* settled.
C16_NoCancelInRound ==
    pc = "over" =>
        \A i \in 1..Len(players) : ~Player_has_active_hands(players[i])

\* The steps of the player turns.
TurnSteps == {"next_hand", "split", "decide"}

\* place is before or at place2, in the order main() visits the hands.
Before(place, place2) ==
    place[1] < place2[1] \/ (place[1] = place2[1] /\ place[2] <= place2[2])

\* The cards of a hand only change while the hand is active and worth less
\* than 21, in the two passes of setup or at a prompt that is for this hand.
\* (A round's hands are new objects; the steps that make them are left out.)
CardsOnlyInTurn ==
    pc \notin {"continue", "bet"} =>
        \A i \in 1..Len(players) : \A j \in 1..Len(players[i].hands) :
            players'[i].hands[j].cards # players[i].hands[j].cards =>
                /\ players[i].hands[j].active
                /\ Hand_value(players[i].hands[j]) < 21
                /\ \/ pc = "deal"
                   \/ pc \in {"split", "decide"} /\ cur = <<i, j>>

\* The turns are taken hand after hand: the hand whose turn it is stays the
\* same until its turn has ended, and then a later hand is next.
TurnsInOrder ==
    pc \in TurnSteps /\ pc' \in TurnSteps =>
        IF pc = "next_hand" THEN Before(cur, cur') /\ cur' # cur ELSE cur' = cur

\* C17: a hand gets no card once it is inactive or its turn has ended (the
\* player stood or doubled down, or the hand reached 21 or went bust), and no
\* decision is asked for on such a hand.
C17_NoCardAfterTurn ==
    /\ [](pc \in {"split", "decide"} =>
            /\ players[cur[1]].hands[cur[2]].active
            /\ Hand_value(players[cur[1]].hands[cur[2]]) < 21)
    /\ [][CardsOnlyInTurn /\ TurnsInOrder]_vars

\* The player stood on the first hand of a split and has hit the second.
C17_Witness ==
    /\ pc = "decide"
    /\ cur[2] = 2
    /\ Len(players[cur[1]].hands[2].cards) = 3
    /\ players[cur[1]].hands[1].active
    /\ Hand_value(players[cur[1]].hands[1]) < 21

\* The results a player has recorded.
Outcomes(p) == p.results.wins + p.results.ties + p.results.losses

\* The results check_for_dealer_blackjack records for an insurance bet of a
\* player: one, won or lost, when it looks at the bet.
InsuranceOutcomes(p) ==
    IF /\ pc = "check_dealer"
       /\ p.insurance # 0
       /\ Player_has_active_hands(p)
       /\ Hand_blackjack(dealer[1]) \/ Card_ace(UpCard)
    THEN 1 ELSE 0

\* The hands of a player that a step makes inactive.
Settling(i) ==
    {j \in 1..Len(players[i].hands) :
        players[i].hands[j].active /\ ~players'[i].hands[j].active}

\* Within a round, a step records one result for each hand it makes inactive
\* and none for another hand, and an inactive hand stays inactive; the bets
\* of a new round record no result.
SettledOnceEach ==
    \A i \in 1..Len(players) :
        IF pc = "continue" THEN
            \E k \in 1..Len(players) :
                /\ players'[k].name = players[i].name
                /\ Outcomes(players'[k]) = Outcomes(players[i])
        ELSE IF pc = "bet" THEN Outcomes(players'[i]) = Outcomes(players[i])
        ELSE /\ Outcomes(players'[i]) =
                    Outcomes(players[i]) + Cardinality(Settling(i))
                                         + InsuranceOutcomes(players[i])
             /\ \A j \in 1..Len(players[i].hands) :
                    ~players[i].hands[j].active => ~players'[i].hands[j].active

\* No hand is left active when the round is over.
NoneLeftOpen == pc \in {"continue", "over"} => ~Game_has_active_hands(players)

\* C18: every hand of a round is settled exactly once in the round, as one
\* win, push or loss: never twice, and never left unsettled.
C18_SettledExactlyOnce == []NoneLeftOpen /\ [][SettledOnceEach]_vars

\* The round is over: main is back between two rounds or has ended, and no
\* hand is active.
RoundOver == pc \in {"continue", "over"} /\ ~Game_has_active_hands(players)

\* C19: when every prompt is answered, a round that has started comes to an
\* end with no active hand, so the turns of the players and of the dealer
\* end after finitely many cards, and an empty shoe does not stop the round.
C19_RoundEnds == (pc = "bet") ~> RoundOver

\* A round has ended in which the shoe ran out and was replaced, a player
\* hit, and the dealer drew.
C19_Witness ==
    /\ RoundOver
    /\ rounds > 1
    /\ Len(dealer[1].cards) > 2
    /\ \E i \in 1..Len(players) : \E j \in 1..Len(players[i].hands) :
            Len(players[i].hands[j].cards) > 2 /\ players[i].hands[j].stake > 0
    /\ Len(deck) < Len(ShoeRanks) * Len(ShoeSuits)

\* The place of a step of main in the order of a round; the prompt between
\* two rounds and the end of the session come last.
PhaseRank(at) ==
    CASE at = "bet" -> 1
      [] at = "deal" -> 2
      [] at \in {"offer", "insure"} -> 3
      [] at = "check_dealer" -> 4
      [] at = "check_player" -> 5
      [] at \in TurnSteps -> 6
      [] at = "dealer" -> 7
      [] OTHER -> 8

\* A round starts with the bets and never goes back to an earlier phase.
PhasesInOrder ==
    IF pc = "continue" THEN pc' \in {"bet", "over"}
    ELSE PhaseRank(pc') >= PhaseRank(pc)

\* What a step does to a player and to the dealer tells its phase: a new
\* hand is made with the bets, an insurance bet is set at the insurance
\* prompt, chips are debited for a bet, an insurance bet, a split or a double
\* down, cards come in setup or at a prompt of the hand, a result beyond the
\* hands settled is the insurance result of check_for_dealer_blackjack, and
\* the dealer's hand changes in setup and in the dealer's turn.
PhaseEffects ==
    pc # "continue" =>
        /\ \A i \in 1..Len(players) :
            /\ (players'[i].hands # players[i].hands /\ players'[i].hands[1].cards = <<>>)
                    => pc = "bet"
            /\ players'[i].insurance # players[i].insurance => pc = "insure"
            /\ players'[i].chips < players[i].chips
                    => pc \in {"bet", "insure", "split", "decide"}
            /\ Outcomes(players'[i]) # Outcomes(players[i])
                    => pc \in {"check_dealer", "check_player", "decide", "dealer"}
            /\ Outcomes(players'[i]) > Outcomes(players[i]) + Cardinality(Settling(i))
                    => pc = "check_dealer"
            /\ \A j \in 1..Len(players[i].hands) :
                    (pc # "bet" /\ players'[i].hands[j].cards # players[i].hands[j].cards)
                        => pc \in {"deal", "split", "decide"}
        /\ dealer' # dealer => pc \in {"bet", "deal", "dealer"}
        /\ (dealer' # dealer /\ Len(dealer'[1].cards) > 2) => pc = "dealer"

\* While the cards are dealt, every player of the round has a hand with the
\* stake debited; from the insurance offer to the dealer-blackjack check every
\* hand of the round holds two cards; and the dealer holds two cards until
\* the turns of the players are over.
TwoCardsEach ==
    /\ pc = "deal" =>
            \A k \in 1..Len(queue) :
                /\ Len(players[queue[k]].hands) = 1
                /\ players[queue[k]].hands[1].active
                /\ players[queue[k]].hands[1].stake >= MinBet
    /\ pc \in {"offer", "insure", "check_dealer"} =>
            /\ Game_has_active_hands(players)
            /\ \A i \in 1..Len(players) : \A j \in 1..Len(players[i].hands) :
                    players[i].hands[j].active =>
                        j = 1 /\ Len(players[i].hands[j].cards) = 2
    /\ pc \in {"offer", "insure", "check_dealer", "check_player"} \cup TurnSteps =>
            Len(dealer[1].cards) = 2

\* C20: a round goes through its phases in order: the bets, two cards to
\* every hand and to the dealer, the insurance bets, the dealer-blackjack
\* check with the insurance results, the player blackjacks, the decisions of
\* the players, the dealer's draws, the settlement. No insurance result comes
\* later than the dealer-blackjack check, and the dealer draws no card before
\* the turns of the players are over.
C20_PhasesInOrder == []TwoCardsEach /\ [][PhasesInOrder /\ PhaseEffects]_vars

\* The dealer, showing an ace, has drawn a card in a round in which a player
\* took insurance and hit.
C20_Witness ==
    /\ pc = "dealer"
    /\ Card_ace(UpCard)
    /\ Len(dealer[1].cards) > 2
    /\ \E i \in 1..Len(players) :
            /\ players[i].insurance # 0
            /\ \E j \in 1..Len(players[i].hands) :
                    players[i].hands[j].active /\ Len(players[i].hands[j].cards) > 2

\* The answer at the insurance prompt: the player asked is debited the amount
\* answered, at most the chips held, and has it as insurance; an answer of 0
\* debits nothing. The other players are left alone.
InsuranceDebited ==
    pc = "insure" /\ pc' # "over" =>
        \A i \in 1..Len(players) :
            IF i = queue[cur[1]]
            THEN /\ players'[i].insurance \in 0..players[i].chips
                 /\ players'[i].chips = players[i].chips - players'[i].insurance
                 /\ players'[i].hands = players[i].hands
            ELSE players'[i] = players[i]

\* An insurance amount is set at the insurance prompt only.
InsuranceOnlyOffered ==
    \A i \in 1..Len(players) :
        (pc # "continue" /\ players'[i].insurance # players[i].insurance)
            => pc = "insure"

\* C21: insurance is offered only when the dealer's up-card is an ace; the
\* chips debited for it are the amount answered, never more than the chips
\* the player holds when asked; an answer of 0 debits nothing and leaves an
\* insurance amount of 0.
C21_InsuranceOffer ==
    /\ [](pc = "insure" => Card_ace(UpCard))
    /\ [][InsuranceDebited /\ InsuranceOnlyOffered]_vars

\* A player has taken insurance against the dealer's ace in the first round.
C21_Witness ==
    /\ pc = "check_dealer"
    /\ rounds = 1
    /\ Card_ace(UpCard)
    /\ \E i \in 1..Len(players) :
            /\ players[i].insurance > 0
            /\ players[i].chips =
                    StartChips - players[i].hands[1].stake - players[i].insurance

\* What settle_outcome credits for a hand against the dealer's hand.
Due(h, d) ==
    IF Hand_value(h) > Hand_value(d) \/ Hand_bust(d)
    THEN IF Hand_blackjack(h) THEN (5 * h.stake) \div 2 ELSE 2 * h.stake
    ELSE IF Hand_value(h) = Hand_value(d) THEN h.stake ELSE 0

\* What dealer_turn credits a player for the active hands of hands.
RECURSIVE HandsDue(_, _)
HandsDue(hands, d) ==
    IF hands = <<>> THEN 0
    ELSE (IF Head(hands).active THEN Due(Head(hands), d) ELSE 0)
            + HandsDue(Tail(hands), d)

\* The stake of a hand changes by a double down only: at the prompt of the
\* hand the stake s is debited and added to the hand's stake, one card is
\* dealt to the hand and its turn is over; a bust is a loss recorded at once
\* on an inactive hand, and otherwise the hand stays active with no result.
DoubleDownStep ==
    pc \notin {"continue", "bet"} =>
        \A i \in 1..Len(players) : \A j \in 1..Len(players[i].hands) :
            LET p == players[i]
                q == players'[i]
                h == p.hands[j]
                g == q.hands[j]
            IN g.stake # h.stake =>
                /\ pc = "decide" /\ cur = <<i, j>>
                /\ pc' = "next_hand"
                /\ g.stake = 2 * h.stake
                /\ q.chips = p.chips - h.stake
                /\ Len(g.cards) = Len(h.cards) + 1
                /\ SubSeq(g.cards, 1, Len(h.cards)) = h.cards
                /\ Len(q.hands) = Len(p.hands)
                /\ \A k \in 1..Len(p.hands) : k # j => q.hands[k] = p.hands[k]
                /\ q.results.wins = p.results.wins
                /\ q.results.ties = p.results.ties
                /\ IF Hand_bust(g)
                   THEN ~g.active /\ q.results.losses = p.results.losses + 1
                   ELSE g.active /\ q.results.losses = p.results.losses

\* dealer_turn settles the active hands on the stakes they have then.
SettledOnStake ==
    pc = "dealer" /\ pc' = "continue" =>
        \A i \in 1..Len(players) :
            players'[i].chips =
                players[i].chips + HandsDue(players[i].hands, dealer[1])

\* C22: a double down on a hand of stake s debits s, makes the stake 2s,
\* deals one card to the hand and ends its turn; a bust is recorded at once
\* as a loss on an inactive hand, and a hand that is not bust stays active
\* and is settled later on the doubled stake.
C22_DoubleDown == [][DoubleDownStep /\ SettledOnStake]_vars

\* A hand of the least bet was doubled in the first round and has won twice
\* the doubled stake.
C22_Witness ==
    /\ pc = "continue"
    /\ rounds = 1
    /\ \E i \in 1..Len(players) :
            /\ Len(players[i].hands) = 1
            /\ players[i].hands[1].stake = 2 * MinBet
            /\ Len(players[i].hands[1].cards) = 3
            /\ players[i].results.wins = 1
            /\ players[i].chips = StartChips + 2 * MinBet

\* No hand worth more than 21 is active when main() is at a prompt or at a
\* settlement.
NoBustActive ==
    \A i \in 1..Len(players) : \A j \in 1..Len(players[i].hands) :
        Hand_bust(players[i].hands[j]) => ~players[i].hands[j].active

\* The step that takes a hand over 21 records a loss, makes the hand
\* inactive and credits no chips.
BustIsLoss ==
    pc \notin {"continue", "bet"} =>
        \A i \in 1..Len(players) : \A j \in 1..Len(players[i].hands) :
            LET p == players[i]
                q == players'[i]
            IN ~Hand_bust(p.hands[j]) /\ Hand_bust(q.hands[j]) =>
                /\ ~q.hands[j].active
                /\ q.results.losses = p.results.losses + 1
                /\ q.results.wins = p.results.wins
                /\ q.results.ties = p.results.ties
                /\ q.chips <= p.chips

\* A hand over 21 is left as it is for the rest of the round, and the wins
\* and pushes a step records are no more than the hands it settles that are
\* not over 21.
BustNeverPaid ==
    pc \notin {"continue", "bet"} =>
        \A i \in 1..Len(players) :
            LET p == players[i]
                q == players'[i]
            IN /\ \A j \in 1..Len(p.hands) :
                    Hand_bust(p.hands[j]) => q.hands[j] = p.hands[j]
               /\ (q.results.wins + q.results.ties)
                        - (p.results.wins + p.results.ties)
                    <= Cardinality({j \in Settling(i) : ~Hand_bust(p.hands[j])})
                        + InsuranceOutcomes(p)

\* C23: a hand worth more than 21 is recorded as a loss and made inactive at
\* once, with no chips credited; no such hand is compared with the dealer's
\* hand, and none gets a win or a push, whether the dealer is bust or not.
C23_BustIsLoss == []NoBustActive /\ [][BustIsLoss /\ BustNeverPaid]_vars

\* The dealer went bust in a round in which a hand had gone bust before.
C23_Witness ==
    /\ pc = "continue"
    /\ rounds > 0
    /\ Hand_bust(dealer[1])
    /\ \E i \in 1..Len(players) : \E j \in 1..Len(players[i].hands) :
            /\ Hand_bust(players[i].hands[j])
            /\ players[i].hands[j].stake > 0
            /\ players[i].results.losses > 0

\* The dealer's hand gets a card beyond its two of setup only in the dealer's
\* turn, with a player's hand still active and the hand worth less than 17.
DealerDrawsBelow17 ==
    (dealer # <<>> /\ dealer' # dealer /\ Len(dealer'[1].cards) > 2) =>
        /\ pc = "dealer"
        /\ Game_has_active_hands(players)
        /\ Hand_value(dealer[1]) < 17
        /\ Len(dealer'[1].cards) = Len(dealer[1].cards) + 1

\* The hands are compared with the dealer's hand when it is worth 17 or more.
ComparedFrom17 ==
    pc = "dealer" /\ players' # players => Hand_value(dealer[1]) >= 17

\* When the turns of the players end with no hand active, the round is over
\* and the dealer holds the two cards of setup.
NoDealerTurnWhenSettled ==
    (pc \in TurnSteps \cup {"check_player"} /\ pc' \notin TurnSteps /\ pc' # "over") =>
        IF Game_has_active_hands(players')
        THEN pc' = "dealer"
        ELSE pc' = "continue" /\ Len(dealer'[1].cards) = 2

\* C24: the dealer draws only when a player's hand is still active after the
\* turns of the players, and only while worth less than 17; a hand is
\* compared with a dealer's hand worth at least 17; and when every hand was
\* settled before, the dealer keeps the two cards dealt in setup.
C24_DealerTurn ==
    /\ [](pc = "dealer" => Game_has_active_hands(players))
    /\ [][DealerDrawsBelow17 /\ ComparedFrom17 /\ NoDealerTurnWhenSettled]_vars

\* The dealer has drawn to 17 or more, without going bust, and the hands
\* have been compared.
C24_Witness ==
    /\ pc = "continue"
    /\ rounds > 0
    /\ Len(dealer[1].cards) > 2
    /\ Hand_value(dealer[1]) \in 17..21
    /\ \E i \in 1..Len(players) : Outcomes(players[i]) > 0

\* C25: no assert of bet, split, win or push fails in a session: a bet, an
\* insurance bet, a split and a double down are only made with an amount
\* that is positive and covered by the player's chips, a split only of a
\* pair, and a win or a push only of a positive amount.
C25_NoAssertionFails == pc # "AssertionError"

\* A player has put all the chips on a hand by doubling down, and the hand
\* has won.
C25_Witness ==
    /\ pc = "continue"
    /\ rounds = 1
    /\ \E i \in 1..Len(players) :
            /\ players[i].hands[1].stake = StartChips
            /\ players[i].chips = 2 * StartChips
            /\ players[i].results.wins = 1

\* Hand j of player i comes after place in the order of the turns.
After(i, j, place) == ~Before(<<i, j>>, place)

\* When a turn has ended, the hand that is next is active and is the first
\* active hand after the last one in the order of the players and of their
\* hands; the turns are over when no hand after the last one is active.
NextInOrder ==
    pc = "next_hand" =>
        IF pc' \in TurnSteps
        THEN /\ Before(cur, cur') /\ cur' # cur
             /\ players[cur'[1]].hands[cur'[2]].active
             /\ \A i \in 1..Len(players) : \A j \in 1..Len(players[i].hands) :
                    (After(i, j, cur) /\ Before(<<i, j>>, cur') /\ <<i, j>> # cur')
                        => ~players[i].hands[j].active
        ELSE \A i \in 1..Len(players) : \A j \in 1..Len(players[i].hands) :
                After(i, j, cur) => ~players[i].hands[j].active

\* A split leaves the hands of the player in place and puts the new hand,
\* active, with the second card of the pair and the same stake, after them;
\* the turn of the hand that was split goes on.
SplitAppends ==
    \A i \in 1..Len(players) :
        (pc \notin {"continue", "bet"} /\ Len(players'[i].hands) # Len(players[i].hands)) =>
            LET old == players[i].hands
                new == players'[i].hands
            IN /\ pc = "split" /\ cur[1] = i
               /\ Len(new) = Len(old) + 1
               /\ \A k \in 1..Len(old) : k # cur[2] => new[k] = old[k]
               /\ new[cur[2]].cards[1] = old[cur[2]].cards[1]
               /\ new[Len(new)].cards[1] = old[cur[2]].cards[2]
               /\ new[Len(new)].stake = old[cur[2]].stake
               /\ new[Len(new)].active
               /\ cur' = cur

\* C26: the hands of a player are played in the order they were made: a
\* hand made by a split is put after the player's other hands and has its
\* turn later in the round, before the dealer's turn; a hand that is inactive
\* when its place is reached is passed over.
C26_HandsInOrder == [][NextInOrder /\ SplitAppends /\ TurnsInOrder]_vars

\* The turns are over after a split whose second hand was hit in its turn,
\* with the first hand still active.
C26_Witness ==
    /\ pc = "dealer"
    /\ \E i \in 1..Len(players) :
            /\ Len(players[i].hands) = 2
            /\ players[i].hands[1].active
            /\ Len(players[i].hands[2].cards) > 2

\* The stakes of the active hands of hands, added up.
RECURSIVE ActiveStakes(_)
ActiveStakes(hands) ==
    IF hands = <<>> THEN 0
    ELSE (IF Head(hands).active THEN Head(hands).stake ELSE 0)
            + ActiveStakes(Tail(hands))

\* The insurance bet a step places for player i: the answer at the insurance
\* prompt of the player asked.
Placed(i) ==
    IF pc = "insure" /\ pc' # "over" /\ i = queue[cur[1]]
    THEN players'[i].insurance ELSE 0

\* A step that records no result for a player leaves the player's chips and
\* stakes, with an insurance bet the step places, as they were.
ChipsToStakes ==
    pc # "continue" =>
        \A i \in 1..Len(players) :
            Outcomes(players'[i]) = Outcomes(players[i]) =>
                players'[i].chips + ActiveStakes(players'[i].hands) + Placed(i)
                    = players[i].chips + ActiveStakes(players[i].hands)

\* An insurance bet placed in the round is taken off the table by a result:
\* check_for_dealer_blackjack records one for every player who was asked and
\* placed a bet. (A player in the list who has no active hand did not bet in
\* setup, so that the list is the one of offer_insurance.)
InsuranceLeavesByResult ==
    (pc = "check_dealer" /\ Card_ace(UpCard)) =>
        \A k \in 1..Len(queue) :
            LET i == queue[k] IN
            players[i].insurance # 0 => Outcomes(players'[i]) > Outcomes(players[i])

\* C27: for every player, chips + stakes of the active hands + insurance
\* placed and not resolved in the round is left unchanged by a bet, an
\* insurance bet, a split, a double down and the dealing of cards, and
\* changes only with a result (win, push, loss, bust, insurance result).
C27_ChipsConserved == [][ChipsToStakes /\ InsuranceLeavesByResult]_vars

\* Twice what a settlement is to credit for a hand against the dealer's hand
\* when nothing is cut off: 2.5 times the stake for a blackjack that wins,
\* 2 times for another win, the stake for a push.
TwiceDue(h, d) ==
    IF Hand_value(h) > Hand_value(d) \/ Hand_bust(d)
    THEN IF Hand_blackjack(h) THEN 5 * h.stake ELSE 4 * h.stake
    ELSE IF Hand_value(h) = Hand_value(d) THEN 2 * h.stake ELSE 0

\* TwiceDue added up over the hands of hands at the places of settled, from
\* place k on.
RECURSIVE TwiceDueOf(_, _, _, _)
TwiceDueOf(hands, settled, d, k) ==
    IF k > Len(hands) THEN 0
    ELSE (IF k \in settled THEN TwiceDue(hands[k], d) ELSE 0)
            + TwiceDueOf(hands, settled, d, k + 1)

\* The stake of every hand of a player is positive and even, and so is an
\* insurance bet, if there is one.
EvenStakes ==
    \A i \in 1..Len(players) :
        /\ players[i].insurance >= 0
        /\ players[i].insurance % 2 = 0
        /\ \A j \in 1..Len(players[i].hands) :
                /\ players[i].hands[j].stake > 0
                /\ players[i].hands[j].stake % 2 = 0

\* check_for_player_blackjack and dealer_turn credit the hands they settle
\* in full: nothing is cut off.
PaidInFull ==
    pc \in {"check_player", "dealer"} =>
        \A i \in 1..Len(players) :
            2 * (players'[i].chips - players[i].chips)
                = TwiceDueOf(players[i].hands, Settling(i), dealer[1], 1)

\* C28: the stake of every hand and every insurance bet is a positive even
\* number, so that win() cuts nothing off: a blackjack that wins is credited
\* exactly 2.5 times its stake.
C28_EvenStakes == []EvenStakes /\ [][PaidInFull]_vars

\* A blackjack of the first round has been paid 2.5 times its stake.
C28_Witness ==
    /\ rounds = 1
    /\ pc # "check_player"
    /\ \E i \in 1..Len(players) :
            /\ Len(players[i].hands) = 1
            /\ Hand_blackjack(players[i].hands[1])
            /\ ~players[i].hands[1].active
            /\ players[i].results.wins = 1
            /\ players[i].insurance = 0
            /\ 2 * players[i].chips = 2 * StartChips + 3 * players[i].hands[1].stake

====
